---- MODULE Spec2Model ----
(***************************************************************************)
(* A model of go-battlesnake-server: the leveled Logger (server/logger.go) *)
(* and the BattlesnakeServer with its four routes and the request-logging  *)
(* middleware (server/server.go).                                          *)
(*                                                                         *)
(* Text (request bodies, response bodies, log lines) is a sequence of      *)
(* string tokens.  A Go string argument of a "%s" verb is passed as text.  *)
(***************************************************************************)
EXTENDS Integers, Sequences, FiniteSets, TLC

VARIABLES
    info,      \* the caller's InfoResponse record, shared with the server (s.info)
    supplied,  \* the InfoResponse as the caller filled it in before New
    srv,       \* the BattlesnakeServer: port, logger, moveFunc, the mux's handlers
    log,       \* the lines written to the underlying log.Logger, in order
    served,    \* the requests served so far, each with its response
    inflight,  \* the goroutines serving requests concurrently (SpecConc)
    last       \* the last direct call of a Logger method (SpecLogger)

vars == <<info, supplied, srv, log, served, inflight, last>>

(***************************************************************************)
(* Bounds of the model.                                                    *)
(***************************************************************************)
MaxReq == 2
MaxConc == 2
MaxLog == 3

(***************************************************************************)
(* Integer bit operations (Go's & and | on non-negative ints).             *)
(***************************************************************************)
RECURSIVE BitAnd(_, _)
BitAnd(a, b) ==
    IF a = 0 \/ b = 0 THEN 0
    ELSE (a % 2) * (b % 2) + 2 * BitAnd(a \div 2, b \div 2)

RECURSIVE BitOr(_, _)
BitOr(a, b) ==
    IF a = 0 THEN b
    ELSE IF b = 0 THEN a
    ELSE (IF a % 2 = 1 \/ b % 2 = 1 THEN 1 ELSE 0) + 2 * BitOr(a \div 2, b \div 2)

RECURSIVE Shl(_, _)
Shl(x, n) == IF n = 0 THEN x ELSE 2 * Shl(x, n - 1)

(***************************************************************************)
(* logger.go: the level bits, 1 << iota.                                   *)
(***************************************************************************)
LError == Shl(1, 0)
LWarning == Shl(1, 1)
LInfo == Shl(1, 2)
LDebug == Shl(1, 3)
LDefault == BitOr(BitOr(LError, LWarning), LInfo)

Masks == 0 .. 15

(***************************************************************************)
(* fmt.Sprintf for the verbs the program uses.  args[j] is text for %s and *)
(* an integer for %d.                                                      *)
(***************************************************************************)
Digits == <<"0", "1", "2", "3", "4", "5", "6", "7", "8", "9">>

RECURSIVE Itoa(_)
Itoa(n) == IF n < 10 THEN <<Digits[n + 1]>> ELSE Itoa(n \div 10) \o <<Digits[(n % 10) + 1]>>

FmtArg(verb, a) == IF verb = "%d" THEN Itoa(a) ELSE a

RECURSIVE SprintfFrom(_, _, _, _)
SprintfFrom(format, args, i, j) ==
    IF i > Len(format) THEN <<>>
    ELSE IF format[i] \in {"%s", "%d"}
         THEN (IF j > Len(args) THEN <<"%!", format[i], "(MISSING)">>
               ELSE FmtArg(format[i], args[j]))
              \o SprintfFrom(format, args, i + 1, j + 1)
         ELSE <<format[i]>> \o SprintfFrom(format, args, i + 1, j)

Sprintf(format, args) == SprintfFrom(format, args, 1, 1)

(***************************************************************************)
(* log.Logger.Printf: one line per call, a newline added when missing.     *)
(***************************************************************************)
Printf(out, format, args) ==
    LET s == Sprintf(format, args)
    IN  Append(out, IF Len(s) > 0 /\ s[Len(s)] = "\n" THEN s ELSE s \o <<"\n">>)

(***************************************************************************)
(* logger.go: Logger.                                                      *)
(***************************************************************************)
NewLogger(opts) == [opts |-> opts]

Enabled(l, opt) == BitAnd(l.opts, opt) # 0

Info(l, out, format, args) ==
    IF BitAnd(l.opts, LInfo) # 0 THEN Printf(out, <<"INFO ">> \o format, args) ELSE out

\* Warn gated by the info bit instead of its own.
WarnOnInfoBit(l, out, format, args) ==
    IF BitAnd(l.opts, LInfo) # 0 THEN Printf(out, <<"WARN ">> \o format, args) ELSE out

Warn(l, out, format, args) ==
    IF BitAnd(l.opts, LWarning) # 0 THEN Printf(out, <<"WARN ">> \o format, args) ELSE out

Err(l, out, format, args) ==
    IF BitAnd(l.opts, LError) # 0 THEN Printf(out, <<"ERROR ">> \o format, args) ELSE out

Debug(l, out, format, args) ==
    IF BitAnd(l.opts, LDebug) # 0 THEN Printf(out, <<"DEBUG ">> \o format, args) ELSE out

(***************************************************************************)
(* The request body as a stream: the tokens it delivers, and whether the   *)
(* read after them reports an error instead of io.EOF.                     *)
(***************************************************************************)
ErrRead == <<"unexpected connection error">>
ErrEOF == <<"EOF">>
ErrUnexpectedEOF == <<"unexpected EOF">>
ErrSyntax == <<"invalid character">>
ErrType == <<"json: cannot unmarshal string into Go struct field GameState.turn of type int">>
ErrWrite == <<"write: broken pipe">>

\* A buffer left at its end: the body is not restored for the next reader.
NewBufferDrained(b) == [data |-> <<>>, fail |-> FALSE, orig |-> FALSE]

NewBuffer(b) == [data |-> b, fail |-> FALSE, orig |-> FALSE]

\* io.ReadAll(r.Body)
ReadAll(body) == [data |-> body.data, err |-> IF body.fail THEN ErrRead ELSE <<>>]

(***************************************************************************)
(* encoding/json, decoding into a **GameState.  The members of a JSON      *)
(* object are single tokens; GameState keeps the fields the handlers read. *)
(***************************************************************************)
MGame == "\"game\":{\"id\":\"g1\"}"
MTurn == "\"turn\":3"
MTurnStr == "\"turn\":\"x\""
MYou == "\"you\":{\"id\":\"s1\"}"
Members == {MGame, MTurn, MTurnStr, MYou}

GameState == [Game |-> [ID |-> ""], Turn |-> 0, You |-> [ID |-> ""]]

\* state := &GameState{}
NewState == [nil |-> FALSE, v |-> GameState]

\* A scanner that takes any token for a member of the object.
RECURSIVE ObjectEndLenient(_, _)
ObjectEndLenient(data, i) ==
    IF i > Len(data) THEN 0
    ELSE IF data[i] = "}" THEN i
    ELSE ObjectEndLenient(data, i + 1)

\* Index of the brace closing the object opened before data[i]: 0 when the
\* data ends first, -1 at a token no object can hold.
RECURSIVE ObjectEnd(_, _)
ObjectEnd(data, i) ==
    IF i > Len(data) THEN 0
    ELSE IF data[i] = "}" THEN i
    ELSE IF data[i] \in Members THEN ObjectEnd(data, i + 1)
    ELSE -1

\* Decoder.readValue: the first JSON value of the stream, or the error.
ReadValue(body) ==
    LET data == body.data
        ioerr == IF body.fail THEN ErrRead ELSE ErrUnexpectedEOF
    IN  IF Len(data) = 0 THEN [n |-> 0, err |-> IF body.fail THEN ErrRead ELSE ErrEOF]
        ELSE IF data[1] = "null"
             THEN IF Len(data) = 1 /\ body.fail
                  THEN [n |-> 0, err |-> ErrRead]
                  ELSE [n |-> 1, err |-> <<>>]
        ELSE IF data[1] = "{"
             THEN LET e == ObjectEnd(data, 2)
                  IN  IF e = -1 THEN [n |-> 0, err |-> ErrSyntax]
                      ELSE IF e = 0 THEN [n |-> 0, err |-> ioerr]
                      ELSE [n |-> e, err |-> <<>>]
        ELSE [n |-> 0, err |-> ErrSyntax]

SetMember(v, tok) ==
    CASE tok = MGame -> [v EXCEPT !.Game.ID = "g1"]
      [] tok = MTurn -> [v EXCEPT !.Turn = 3]
      [] tok = MYou -> [v EXCEPT !.You.ID = "s1"]
      [] OTHER -> v

RECURSIVE SetMembers(_, _, _, _)
SetMembers(v, data, i, end) ==
    IF i >= end THEN v ELSE SetMembers(SetMember(v, data[i]), data, i + 1, end)

\* d.unmarshal of the value data[1..n] through the pointer to state.
Unmarshal(data, n, state) ==
    IF data[1] = "null" THEN [err |-> <<>>, state |-> [state EXCEPT !.nil = TRUE]]
    ELSE [err |-> IF \E i \in 2 .. n - 1 : data[i] = MTurnStr THEN ErrType ELSE <<>>,
          state |-> [state EXCEPT !.v = SetMembers(@, data, 2, n)]]

\* json.NewDecoder(r.Body).Decode(&state)
Decode(body, state) ==
    LET rv == ReadValue(body)
    IN  IF rv.err # <<>> THEN [err |-> rv.err, state |-> state]
        ELSE Unmarshal(body.data, rv.n, state)

(***************************************************************************)
(* encoding/json, encoding.  Encoder.Encode marshals, escapes HTML         *)
(* characters in strings, and ends the value with a newline.               *)
(***************************************************************************)
JSONString(s) == IF s = "<3" THEN "\\u003c3" ELSE s

MarshalInfo(i) ==
    <<"{", "\"apiversion\":", JSONString(i.APIVersion), ",",
           "\"author\":", JSONString(i.Author), ",",
           "\"color\":", JSONString(i.Color), ",",
           "\"head\":", JSONString(i.Head), ",",
           "\"tail\":", JSONString(i.Tail), ",",
           "\"version\":", JSONString(i.Version), "}">>

\* A MoveResponse whose shout field is not exported to JSON.
MarshalMoveNoShout(m) ==
    <<"{", "\"move\":", JSONString(m.Move), "}">>

MarshalMove(m) ==
    <<"{", "\"move\":", JSONString(m.Move), ",",
           "\"shout\":", JSONString(m.Shout), "}">>

(***************************************************************************)
(* http.ResponseWriter.  The first WriteHeader fixes the status and the    *)
(* headers sent; Write calls WriteHeader(200) first when none was called.  *)
(***************************************************************************)
StatusOK == 200
StatusBadRequest == 400
StatusNotFound == 404
StatusInternalServerError == 500

HeaderKeys == {"Content-Type", "Location"}

NewResponse ==
    [wroteHeader |-> FALSE, status |-> 0,
     header |-> [k \in HeaderKeys |-> ""], sent |-> [k \in HeaderKeys |-> ""],
     body |-> <<>>]

CanonicalKey(k) == IF k = "content-type" THEN "Content-Type" ELSE k

HeaderSet(w, k, v) == [w EXCEPT !.header[CanonicalKey(k)] = v]

WriteHeader(w, code) ==
    IF w.wroteHeader THEN w
    ELSE [w EXCEPT !.wroteHeader = TRUE, !.status = code, !.sent = w.header]

Write(w, data, fail) ==
    LET w1 == WriteHeader(w, StatusOK)
    IN  IF fail THEN [w |-> w1, err |-> ErrWrite]
        ELSE [w |-> [w1 EXCEPT !.body = @ \o data], err |-> <<>>]

\* json.NewEncoder(w).Encode(v), v already marshalled to text
Encode(w, text, fail) == Write(w, text \o <<"\n">>, fail)

(***************************************************************************)
(* The move functions a caller supplies: the constant one of the tests,    *)
(* and one that greets through the logger it is handed and steers by the   *)
(* turn (README.md).  Reading a field of a nil state panics.               *)
(***************************************************************************)
MoveFuncs == {"constant", "greeter"}

CallMove(f, state, l, out) ==
    IF f = "constant"
    THEN [resp |-> [Move |-> "up", Shout |-> "Hi!"], out |-> out, panic |-> FALSE]
    ELSE IF state.nil
         THEN [resp |-> [Move |-> "", Shout |-> ""], out |-> out, panic |-> TRUE]
         ELSE [resp |-> [Move |-> IF state.v.Turn = 0 THEN "left" ELSE "right",
                         Shout |-> "<3"],
               out |-> Info(l, out, <<"Hello from ", "%s">>, <<<<state.v.You.ID>>>>),
               panic |-> FALSE]

(***************************************************************************)
(* server.go: the handlers.  A handler maps the context of one request     *)
(* (response writer w, log output out, r.Body, the calls of the move       *)
(* function, whether the middleware read the body, whether the encoder     *)
(* failed, whether the goroutine panicked) to the context it leaves.       *)
(***************************************************************************)
apiVersion == "1"

NewContext(r, out) ==
    [w |-> NewResponse, out |-> out,
     body |-> [data |-> r.body, fail |-> r.readFail, orig |-> TRUE],
     calls |-> <<>>, mwRead |-> FALSE, encErr |-> FALSE, panic |-> FALSE]

\* The index handler without its check of the path.
indexHandlerAnyPath(s, c, r) ==
    LET e == Encode(HeaderSet(c.w, "content-type", "application/json"),
                    MarshalInfo(info), r.writeFail)
    IN  IF e.err # <<>>
        THEN [c EXCEPT !.out = Err(s.logger, @,
                                   <<"Failed to encode index response: ", "%s">>, <<e.err>>),
                       !.w = WriteHeader(e.w, StatusInternalServerError),
                       !.encErr = TRUE]
        ELSE [c EXCEPT !.w = e.w]

indexHandler(s, c, r) ==
    IF r.path # "/" THEN [c EXCEPT !.w = WriteHeader(@, StatusNotFound)]
    ELSE LET e == Encode(HeaderSet(c.w, "content-type", "application/json"),
                         MarshalInfo(info), r.writeFail)
         IN  IF e.err # <<>>
             THEN [c EXCEPT !.out = Err(s.logger, @,
                                        <<"Failed to encode index response: ", "%s">>, <<e.err>>),
                            !.w = WriteHeader(e.w, StatusInternalServerError),
                            !.encErr = TRUE]
             ELSE [c EXCEPT !.w = e.w]

startHandler(s, c, r) ==
    LET d == Decode(c.body, NewState)
    IN  IF d.err # <<>>
        THEN [c EXCEPT !.out = Err(s.logger, @,
                                   <<"Failed to decode start request body: ", "%s">>, <<d.err>>),
                       !.w = WriteHeader(@, StatusBadRequest)]
        ELSE IF d.state.nil THEN [c EXCEPT !.panic = TRUE]
        ELSE [c EXCEPT !.out = Info(s.logger, @,
                  <<"Game ID ", "%s", " [Turn ", "%d", "] Snake ID ", "%s", " - Start">>,
                  <<<<d.state.v.Game.ID>>, d.state.v.Turn, <<d.state.v.You.ID>>>>)]

endHandler(s, c, r) ==
    LET d == Decode(c.body, NewState)
    IN  IF d.err # <<>>
        THEN [c EXCEPT !.out = Err(s.logger, @,
                                   <<"Failed to decode end request body: ", "%s">>, <<d.err>>),
                       !.w = WriteHeader(@, StatusBadRequest)]
        ELSE IF d.state.nil THEN [c EXCEPT !.panic = TRUE]
        ELSE [c EXCEPT !.out = Info(s.logger, @,
                  <<"Game ID ", "%s", " [Turn ", "%d", "] Snake ID ", "%s", " - End">>,
                  <<<<d.state.v.Game.ID>>, d.state.v.Turn, <<d.state.v.You.ID>>>>)]

\* The move handler asking for a move before it looks at the decode error.
moveHandlerCallsFirst(s, c, r) ==
    LET d == Decode(c.body, NewState)
        m == CallMove(s.moveFunc, d.state, s.logger, c.out)
        c1 == [c EXCEPT !.out = m.out,
                        !.calls = Append(@, [state |-> d.state, logger |-> s.logger,
                                             resp |-> m.resp])]
    IN  IF d.err # <<>>
        THEN [c1 EXCEPT !.out = Err(s.logger, @,
                                    <<"Failed to decode move request body: ", "%s">>, <<d.err>>),
                        !.w = WriteHeader(@, StatusBadRequest)]
        ELSE IF m.panic THEN [c1 EXCEPT !.panic = TRUE]
        ELSE
        LET e == Encode(HeaderSet(c1.w, "Content-Type", "application/json"),
                        MarshalMove(m.resp), r.writeFail)
        IN  IF e.err # <<>>
            THEN [c1 EXCEPT !.out = Err(s.logger, @,
                                        <<"Failed to encode move response, ", "%s">>, <<e.err>>),
                            !.w = WriteHeader(e.w, StatusInternalServerError),
                            !.encErr = TRUE]
            ELSE IF d.state.nil THEN [c1 EXCEPT !.w = e.w, !.panic = TRUE]
            ELSE [c1 EXCEPT !.w = e.w,
                            !.out = Info(s.logger, @,
              <<"Game ID ", "%s", " [Turn ", "%d", "] Snake ID ", "%s", " - Move: ", "%s">>,
              <<<<d.state.v.Game.ID>>, d.state.v.Turn, <<d.state.v.You.ID>>, <<m.resp.Move>>>>)]

moveHandler(s, c, r) ==
    LET d == Decode(c.body, NewState)
    IN  IF d.err # <<>>
        THEN [c EXCEPT !.out = Err(s.logger, @,
                                   <<"Failed to decode move request body: ", "%s">>, <<d.err>>),
                       !.w = WriteHeader(@, StatusBadRequest)]
        ELSE
        LET m == CallMove(s.moveFunc, d.state, s.logger, c.out)
            c1 == [c EXCEPT !.out = m.out,
                            !.calls = Append(@, [state |-> d.state, logger |-> s.logger,
                                                 resp |-> m.resp])]
        IN  IF m.panic THEN [c1 EXCEPT !.panic = TRUE]
            ELSE
            LET e == Encode(HeaderSet(c1.w, "Content-Type", "application/json"),
                            MarshalMove(m.resp), r.writeFail)
            IN  IF e.err # <<>>
                THEN [c1 EXCEPT !.out = Err(s.logger, @,
                                            <<"Failed to encode move response, ", "%s">>, <<e.err>>),
                                !.w = WriteHeader(e.w, StatusInternalServerError),
                                !.encErr = TRUE]
                ELSE IF d.state.nil THEN [c1 EXCEPT !.w = e.w, !.panic = TRUE]
                ELSE [c1 EXCEPT !.w = e.w,
                                !.out = Info(s.logger, @,
                  <<"Game ID ", "%s", " [Turn ", "%d", "] Snake ID ", "%s", " - Move: ", "%s">>,
                  <<<<d.state.v.Game.ID>>, d.state.v.Turn, <<d.state.v.You.ID>>, <<m.resp.Move>>>>)]

\* The handler a route was registered with, called as next(w, r).
Handle(next, s, c, r) ==
    CASE next = "index" -> indexHandler(s, c, r)
      [] next = "start" -> startHandler(s, c, r)
      [] next = "end" -> endHandler(s, c, r)
      [] next = "move" -> moveHandler(s, c, r)

\* The middleware logging the request only after the handler returned.
loggingHandlerLogsLast(next, s, c, r) ==
    LET rd == ReadAll(c.body)
        c1 == [c EXCEPT !.mwRead = TRUE]
    IN  IF rd.err # <<>>
        THEN [c1 EXCEPT !.out = Err(s.logger, @,
                                    <<"Failed to read request body: ", "%s">>, <<rd.err>>),
                        !.w = WriteHeader(@, StatusBadRequest)]
        ELSE LET c2 == Handle(next, s, [c1 EXCEPT !.body = NewBuffer(rd.data)], r)
             IN  [c2 EXCEPT !.out = Debug(s.logger, @, <<"%s", " ", "%s", " ", "%s", "\n">>,
                                          <<<<r.method>>, <<r.path>>, rd.data>>)]

\* The middleware without the return after a failed read.
loggingHandlerNoReturn(next, s, c, r) ==
    LET rd == ReadAll(c.body)
        c1 == [c EXCEPT !.mwRead = TRUE]
    IN  IF rd.err # <<>>
        THEN Handle(next, s,
                    [c1 EXCEPT !.out = Err(s.logger, @,
                                           <<"Failed to read request body: ", "%s">>, <<rd.err>>),
                               !.w = WriteHeader(@, StatusBadRequest)],
                    r)
        ELSE Handle(next, s,
                    [c1 EXCEPT !.body = NewBuffer(rd.data),
                               !.out = Debug(s.logger, @, <<"%s", " ", "%s", " ", "%s", "\n">>,
                                             <<<<r.method>>, <<r.path>>, rd.data>>)],
                    r)

\* The closure withRequestLogging returns when debug logging is enabled.
loggingHandler(next, s, c, r) ==
    LET rd == ReadAll(c.body)
        c1 == [c EXCEPT !.mwRead = TRUE]
    IN  IF rd.err # <<>>
        THEN [c1 EXCEPT !.out = Err(s.logger, @,
                                    <<"Failed to read request body: ", "%s">>, <<rd.err>>),
                        !.w = WriteHeader(@, StatusBadRequest)]
        ELSE Handle(next, s,
                    [c1 EXCEPT !.body = NewBuffer(rd.data),
                               !.out = Debug(s.logger, @, <<"%s", " ", "%s", " ", "%s", "\n">>,
                                             <<<<r.method>>, <<r.path>>, rd.data>>)],
                    r)

\* The middleware installed whatever the mask.
withRequestLoggingAlways(logger, next) == [logging |-> TRUE, next |-> next]

\* withRequestLogging(next): decided once, when the route is registered.
withRequestLogging(logger, next) == [logging |-> Enabled(logger, LDebug), next |-> next]

Call(h, s, c, r) ==
    IF h.logging THEN loggingHandler(h.next, s, c, r) ELSE Handle(h.next, s, c, r)

(***************************************************************************)
(* http.ServeMux with the patterns "/", "/start", "/end", "/move": a path  *)
(* that is not clean is redirected, an exact pattern wins, "/" takes the   *)
(* rest.                                                                   *)
(***************************************************************************)
Patterns == {"/", "/start", "/end", "/move"}

CleanPath(p) == IF p = "//move" THEN "/move" ELSE p

Pattern(p) == IF p \in Patterns THEN p ELSE "/"

ServeHTTP(s, c, r) ==
    IF CleanPath(r.path) # r.path
    THEN [c EXCEPT !.w = WriteHeader(HeaderSet(@, "Location", CleanPath(r.path)), 301)]
    ELSE Call(s.mux[Pattern(r.path)], s, c, r)

\* What the client receives once the handler returned; nothing when it panicked.
Response(c) ==
    IF c.panic THEN [status |-> 0, header |-> [k \in HeaderKeys |-> ""], body |-> <<>>]
    ELSE LET w == WriteHeader(c.w, StatusOK)
         IN  [status |-> w.status, header |-> w.sent, body |-> w.body]

(***************************************************************************)
(* server.go: New.                                                         *)
(***************************************************************************)
\* "/end" registered with the move handler.
RoutesEndAsMove == [p \in Patterns |->
                       CASE p = "/" -> "index" [] p = "/start" -> "start"
                         [] p = "/end" -> "move" [] p = "/move" -> "move"]

Routes == [p \in Patterns |->
              CASE p = "/" -> "index" [] p = "/start" -> "start"
                [] p = "/end" -> "end" [] p = "/move" -> "move"]

NoServer ==
    [constructed |-> FALSE, port |-> "", logger |-> NewLogger(0), moveFunc |-> "constant",
     mux |-> [p \in Patterns |-> [logging |-> FALSE, next |-> Routes[p]]]]

\* New leaving the caller's APIVersion as it was.
NewServerKeepsVersion(port, inf, loggerOpts, moveFunc) ==
    LET l == NewLogger(loggerOpts)
    IN  [info |-> inf,
         s |-> [constructed |-> TRUE, port |-> port, logger |-> l, moveFunc |-> moveFunc,
                mux |-> [p \in Patterns |-> withRequestLogging(l, Routes[p])]]]

\* New(port, info, logger, loggerOpts, moveFunc): the caller's record after the
\* call, and the server returned.
NewServer(port, inf, loggerOpts, moveFunc) ==
    LET l == NewLogger(loggerOpts)
    IN  [info |-> [inf EXCEPT !.APIVersion = apiVersion],
         s |-> [constructed |-> TRUE, port |-> port, logger |-> l, moveFunc |-> moveFunc,
                mux |-> [p \in Patterns |-> withRequestLogging(l, Routes[p])]]]

(***************************************************************************)
(* The inputs.                                                             *)
(***************************************************************************)
Infos ==
    {[APIVersion |-> v, Author |-> "foo", Color |-> "#000000", Head |-> "default",
      Tail |-> "default", Version |-> "9.9"] : v \in {"", "2"}}

Ports == {"8080"}

BEmpty == <<>>
BInvalid == <<"{", "invalid", "}">>
BNull == <<"null">>
BZero == <<"{", "}">>
BFull == <<"{", MGame, MTurn, MYou, "}">>
BTyped == <<"{", MTurnStr, "}">>
BCut == <<"{", MTurn>>
BTrail == <<"{", MYou, "}", "invalid">>

Req(method, path, body) ==
    [method |-> method, path |-> path, body |-> body, readFail |-> FALSE, writeFail |-> FALSE]

\* A request: method, path, the body sent, whether reading the body fails
\* after that data, and whether writing to the response writer fails.
Requests ==
    {Req("GET", "/", BEmpty), Req("POST", "/", BInvalid),
     Req("GET", "/does-not-exist", BEmpty), Req("GET", "/start/", BEmpty),
     Req("GET", "//move", BEmpty),
     Req("GET", "/start", BEmpty),
     Req("POST", "/start", BInvalid), Req("POST", "/start", BZero),
     Req("POST", "/start", BNull), Req("POST", "/start", BTrail),
     Req("POST", "/end", BInvalid), Req("POST", "/end", BFull),
     Req("POST", "/end", BNull), Req("POST", "/end", BTyped),
     Req("POST", "/move", BInvalid), Req("POST", "/move", BZero),
     Req("POST", "/move", BFull), Req("POST", "/move", BNull),
     Req("POST", "/move", BCut),
     [Req("GET", "/", BEmpty) EXCEPT !.writeFail = TRUE],
     [Req("POST", "/move", BFull) EXCEPT !.writeFail = TRUE],
     [Req("POST", "/start", BZero) EXCEPT !.readFail = TRUE],
     [Req("POST", "/move", BNull) EXCEPT !.readFail = TRUE]}

(***************************************************************************)
(* The server's specification.                                             *)
(***************************************************************************)
\* A goroutine of http.Serve before a request reached it.
Idle == [pc |-> "idle", req |-> Req("GET", "/", BEmpty),
         c |-> NewContext(Req("GET", "/", BEmpty), <<>>)]

NoCall == [n |-> 0, level |-> "", call |-> 0, before |-> 0]

Init ==
    /\ info \in Infos
    /\ supplied = info
    /\ srv = NoServer
    /\ log = <<>>
    /\ served = <<>>
    /\ inflight = [g \in 1 .. MaxConc |-> Idle]
    /\ last = NoCall

New(port, loggerOpts, moveFunc) ==
    /\ ~srv.constructed
    /\ LET n == NewServer(port, info, loggerOpts, moveFunc)
       IN  /\ info' = n.info
           /\ srv' = n.s
    /\ UNCHANGED <<supplied, log, served, inflight, last>>

Serve(r) ==
    /\ srv.constructed
    /\ Len(served) < MaxReq
    /\ \E c \in {ServeHTTP(srv, NewContext(r, log), r)} :
           /\ log' = c.out
           /\ served' = Append(served,
                  [req |-> r, resp |-> Response(c), calls |-> c.calls, mwRead |-> c.mwRead,
                   encErr |-> c.encErr, panic |-> c.panic,
                   logFrom |-> Len(log) + 1, logTo |-> Len(c.out)])
    /\ UNCHANGED <<info, supplied, srv, inflight, last>>

Next ==
    \/ \E port \in Ports, loggerOpts \in Masks, moveFunc \in MoveFuncs :
          New(port, loggerOpts, moveFunc)
    \/ \E r \in Requests : Serve(r)

Spec == Init /\ [][Next]_vars

(***************************************************************************)
(* The server under http.Serve: one goroutine per request.  The handlers   *)
(* share the server's fields and the info record, which they only read,    *)
(* and the log.Logger, which writes one line at a time under its mutex.    *)
(* A goroutine accepts a request, runs the handler, hands its lines to the *)
(* logger one by one in the order the handler wrote them, and returns,     *)
(* which sends the response.                                               *)
(***************************************************************************)
ConcMasks == {LDefault, BitOr(LDefault, LDebug)}

ConcRequests ==
    {Req("GET", "/", BEmpty), Req("POST", "/start", BZero),
     Req("POST", "/end", BInvalid), Req("POST", "/move", BFull),
     [Req("POST", "/move", BZero) EXCEPT !.readFail = TRUE]}

\* A handler that stamps the info record with the method of the request.
SharedAfterStamped(s, inf, r) == [s |-> s, info |-> [inf EXCEPT !.Version = r.method]]

\* The server's fields and the info record as a request leaves them: no
\* handler and no middleware assigns to s, to *s.info or to *s.logger.
SharedAfter(s, inf, r) == [s |-> s, info |-> inf]

Accept(g, r) ==
    /\ srv.constructed
    /\ inflight[g].pc = "idle"
    /\ inflight' = [inflight EXCEPT ![g] = [pc |-> "accepted", req |-> r,
                                            c |-> NewContext(r, <<>>)]]
    /\ UNCHANGED <<info, supplied, srv, log, served, last>>

Run(g) ==
    /\ inflight[g].pc = "accepted"
    /\ \E c \in {ServeHTTP(srv, inflight[g].c, inflight[g].req)},
          sh \in {SharedAfter(srv, info, inflight[g].req)} :
           /\ inflight' = [inflight EXCEPT ![g].pc = "handled", ![g].c = c]
           /\ srv' = sh.s
           /\ info' = sh.info
    /\ UNCHANGED <<supplied, log, served, last>>

Emit(g) ==
    /\ inflight[g].pc = "handled"
    /\ inflight[g].c.out # <<>>
    /\ log' = Append(log, Head(inflight[g].c.out))
    /\ inflight' = [inflight EXCEPT ![g].c.out = Tail(@)]
    /\ UNCHANGED <<info, supplied, srv, served, last>>

Return(g) ==
    /\ inflight[g].pc = "handled"
    /\ inflight[g].c.out = <<>>
    /\ \E c \in {inflight[g].c} :
           served' = Append(served,
               [req |-> inflight[g].req, resp |-> Response(c), calls |-> c.calls,
                mwRead |-> c.mwRead, encErr |-> c.encErr, panic |-> c.panic,
                logFrom |-> 0, logTo |-> 0])
    /\ inflight' = [inflight EXCEPT ![g].pc = "done"]
    /\ UNCHANGED <<info, supplied, srv, log, last>>

NextConc ==
    \/ \E port \in Ports, loggerOpts \in ConcMasks, moveFunc \in MoveFuncs :
          New(port, loggerOpts, moveFunc)
    \/ \E g \in 1 .. MaxConc, r \in ConcRequests : Accept(g, r)
    \/ \E g \in 1 .. MaxConc : Run(g)
    \/ \E g \in 1 .. MaxConc : Emit(g)
    \/ \E g \in 1 .. MaxConc : Return(g)

SpecConc == Init /\ [][NextConc]_vars

(***************************************************************************)
(* The logger on its own: a Logger built with any mask, and its four       *)
(* methods called directly.                                                *)
(***************************************************************************)
CallFormat(i) == IF i = 1 THEN <<"test log message">> ELSE <<"turn ", "%d">>
CallArgs(i) == IF i = 1 THEN <<>> ELSE <<3>>
Calls == {1, 2}

InitLogger ==
    /\ info \in Infos
    /\ supplied = info
    /\ \E opts \in Masks : srv = [NoServer EXCEPT !.logger = NewLogger(opts)]
    /\ log = <<>>
    /\ served = <<>>
    /\ inflight = [g \in 1 .. MaxConc |-> Idle]
    /\ last = NoCall

Called(level, i, out) ==
    /\ last.n < MaxLog
    /\ log' = out
    /\ last' = [n |-> last.n + 1, level |-> level, call |-> i, before |-> Len(log)]
    /\ UNCHANGED <<info, supplied, srv, served, inflight>>

CallErr(i) == Called("ERROR", i, Err(srv.logger, log, CallFormat(i), CallArgs(i)))
CallWarn(i) == Called("WARN", i, Warn(srv.logger, log, CallFormat(i), CallArgs(i)))
CallInfo(i) == Called("INFO", i, Info(srv.logger, log, CallFormat(i), CallArgs(i)))
CallDebug(i) == Called("DEBUG", i, Debug(srv.logger, log, CallFormat(i), CallArgs(i)))

NextLogger ==
    \/ \E i \in Calls : CallErr(i)
    \/ \E i \in Calls : CallWarn(i)
    \/ \E i \in Calls : CallInfo(i)
    \/ \E i \in Calls : CallDebug(i)

SpecLogger == InitLogger /\ [][NextLogger]_vars

(***************************************************************************)
(* Properties.  Each served[i] is one request with the response the client *)
(* got; log[logFrom .. logTo] are the lines written while it was served.   *)
(***************************************************************************)
Served == {served[i] : i \in 1 .. Len(served)}

\* Whether `bit` (a power of two) is set in mask, by arithmetic.
HasBit(mask, bit) == (mask \div bit) % 2 = 1

\* The request arrived whole and its response could be written.
NoFault(q) == ~q.readFail /\ ~q.writeFail

\* A string as encoding/json writes it for a client.
Quoted(str) == IF str = "<3" THEN "\\u003c3" ELSE str

\* Bodies holding a JSON object that describes a game state.
ValidBodies == {BZero, BFull}

\* Bodies from which no value can be decoded: nothing at all, a syntax error,
\* an object cut short, a member of the wrong type.
UndecodableBodies == {BEmpty, BInvalid, BCut, BTyped}

\* The state each valid body describes.
StateOf(body) ==
    IF body = BFull THEN [Game |-> [ID |-> "g1"], Turn |-> 3, You |-> [ID |-> "s1"]]
    ELSE [Game |-> [ID |-> ""], Turn |-> 0, You |-> [ID |-> ""]]

\* C1: a POST /move whose body decodes as a GameState, served without an I/O
\* fault, is answered 200 with content-type application/json and a body that
\* is exactly the JSON object {"move":..,"shout":..} of the MoveResponse the
\* move function returned for that request, followed by a newline.
C1_MoveResponseIsReturned ==
    \A e \in Served :
        (e.req.method = "POST" /\ e.req.path = "/move"
            /\ e.req.body \in ValidBodies /\ NoFault(e.req))
        => /\ e.resp.status = 200
           /\ e.resp.header["Content-Type"] = "application/json"
           /\ Len(e.calls) = 1
           /\ e.resp.body = <<"{", "\"move\":", Quoted(e.calls[1].resp.Move), ",",
                                   "\"shout\":", Quoted(e.calls[1].resp.Shout), "}", "\n">>

C1_Witness ==
    \E e \in Served :
        /\ e.req = Req("POST", "/move", BFull)
        /\ srv.moveFunc = "greeter"
        /\ e.resp.status = 200
        /\ e.resp.body = <<"{", "\"move\":", "right", ",", "\"shout\":", "\\u003c3", "}", "\n">>

\* C2: a request to /start, /end or /move whose body cannot be decoded as a
\* GameState is answered 400, under every logger mask and whether or not the
\* body read or the response write fails.
C2_UndecodableIs400 ==
    \A e \in Served :
        (e.req.path \in {"/start", "/end", "/move"} /\ e.req.body \in UndecodableBodies)
        => e.resp.status = 400

C2_Witness ==
    \E e \in Served :
        /\ e.req = Req("POST", "/move", BInvalid)
        /\ HasBit(srv.logger.opts, 8)
        /\ e.resp.status = 400

\* C3: a POST /start or POST /end with a valid GameState body that arrives
\* whole is answered 200 with an empty body, and the move function is not
\* invoked.
C3_StartEndEmpty200 ==
    \A e \in Served :
        (e.req.method = "POST" /\ e.req.path \in {"/start", "/end"}
            /\ e.req.body \in ValidBodies /\ ~e.req.readFail)
        => /\ e.resp.status = 200
           /\ e.resp.body = <<>>
           /\ e.calls = <<>>

C3_Witness ==
    /\ \E e \in Served : e.req = Req("POST", "/start", BZero) /\ e.resp.status = 200
    /\ \E e \in Served : e.req = Req("POST", "/end", BFull) /\ e.resp.status = 200

\* C4: construction overwrites only the APIVersion field of the caller's
\* record, with "1"; every GET / served afterwards without an I/O fault is
\* answered 200 with content-type application/json and the record as JSON:
\* apiversion "1" and the other five fields as supplied.
C4_InfoWithForcedVersion ==
    srv.constructed =>
        /\ info = [supplied EXCEPT !.APIVersion = "1"]
        /\ \A e \in Served :
              (e.req.method = "GET" /\ e.req.path = "/" /\ NoFault(e.req))
              => /\ e.resp.status = 200
                 /\ e.resp.header["Content-Type"] = "application/json"
                 /\ e.resp.body =
                       <<"{", "\"apiversion\":", "1", ",",
                              "\"author\":", Quoted(supplied.Author), ",",
                              "\"color\":", Quoted(supplied.Color), ",",
                              "\"head\":", Quoted(supplied.Head), ",",
                              "\"tail\":", Quoted(supplied.Tail), ",",
                              "\"version\":", Quoted(supplied.Version), "}", "\n">>

C4_Witness ==
    /\ supplied.APIVersion = "2"
    /\ Len(served) = 2
    /\ served[2].req = Req("GET", "/", BEmpty)
    /\ served[2].resp.status = 200

\* The body of the info response a client expects.
InfoBody ==
    <<"{", "\"apiversion\":", "1", ",",
           "\"author\":", Quoted(supplied.Author), ",",
           "\"color\":", Quoted(supplied.Color), ",",
           "\"head\":", Quoted(supplied.Head), ",",
           "\"tail\":", Quoted(supplied.Tail), ",",
           "\"version\":", Quoted(supplied.Version), "}", "\n">>

\* A request to "/" is served the info response whatever its method.
IndexIgnoresMethod ==
    \A e \in Served :
        (e.req.path = "/" /\ NoFault(e.req))
        => e.resp.status = 200 /\ e.resp.body = InfoBody

\* C5 as stated: every GET to a path other than exactly "/" is answered 404,
\* and "/" is served the info response whatever the method.
C5_AnyOtherPathIs404 ==
    /\ \A e \in Served : (e.req.method = "GET" /\ e.req.path # "/") => e.resp.status = 404
    /\ IndexIgnoresMethod

\* C5, amended: a GET to a path in canonical form that is none of the
\* registered "/", "/start", "/end", "/move", its body read without error, is
\* answered 404; and "/" is served the info response whatever the method.
C5_UnregisteredPathIs404 ==
    /\ \A e \in Served :
          (e.req.method = "GET" /\ e.req.path \notin {"/", "/start", "/end", "/move"}
              /\ e.req.path # "//move" /\ ~e.req.readFail)
          => e.resp.status = 404 /\ e.resp.body = <<>>
    /\ IndexIgnoresMethod

C5_Witness ==
    /\ \E e \in Served : e.req = Req("GET", "/start/", BEmpty) /\ e.resp.status = 404
    /\ \E e \in Served : e.req = Req("POST", "/", BInvalid) /\ e.resp.status = 200

\* C6: with the debug bit set, the first line written for a request that
\* reaches a route with its body read in full is the DEBUG line holding the
\* method, the path and the exact body text, and no later line of that
\* request is a DEBUG line: it comes before every line of the route handler.
C6_DebugLineComesFirst ==
    (srv.constructed /\ HasBit(srv.logger.opts, 8)) =>
        \A e \in Served :
            (e.req.path # "//move" /\ ~e.req.readFail)
            => /\ e.logFrom <= e.logTo
               /\ log[e.logFrom] =
                     <<"DEBUG ", e.req.method, " ", e.req.path, " ">> \o e.req.body \o <<"\n">>
               /\ \A j \in e.logFrom + 1 .. e.logTo : log[j][1] \in {"ERROR ", "INFO "}

C6_Witness ==
    \E e \in Served :
        /\ e.req = Req("POST", "/start", BInvalid)
        /\ HasBit(srv.logger.opts, 8) /\ HasBit(srv.logger.opts, 1)
        /\ e.logTo = e.logFrom + 1
        /\ log[e.logFrom][1] = "DEBUG "
        /\ log[e.logTo][1] = "ERROR "

\* C7: with the debug bit clear at construction every route is registered
\* with its handler itself: the middleware reads no request body, no DEBUG
\* line is written, and the response, the log lines and the calls of the move
\* function of every request are those of the route handler called directly.
C7_NoDebugMeansDirect ==
    (srv.constructed /\ ~HasBit(srv.logger.opts, 8)) =>
        /\ \A p \in Patterns : srv.mux[p] = [logging |-> FALSE, next |-> Routes[p]]
        /\ \A j \in 1 .. Len(log) : log[j][1] # "DEBUG "
        /\ \A e \in Served :
              e.req.path # "//move" =>
                 \E c \in {Handle(Routes[Pattern(e.req.path)], srv,
                                  NewContext(e.req, SubSeq(log, 1, e.logFrom - 1)), e.req)} :
                     /\ ~e.mwRead
                     /\ e.resp = Response(c)
                     /\ SubSeq(log, 1, e.logTo) = c.out
                     /\ e.calls = c.calls

C7_Witness ==
    \E e \in Served :
        /\ ~HasBit(srv.logger.opts, 8)
        /\ e.req = [Req("POST", "/start", BZero) EXCEPT !.readFail = TRUE]
        /\ e.resp.status = 200

\* The bit, the message text and the level name of the last direct call.
LevelBit(level) ==
    CASE level = "ERROR" -> 1 [] level = "WARN" -> 2 [] level = "INFO" -> 4 [] level = "DEBUG" -> 8

CallText(i) == IF i = 1 THEN <<"test log message">> ELSE <<"turn ", "3">>

LevelPrefix(level) ==
    CASE level = "ERROR" -> "ERROR " [] level = "WARN" -> "WARN "
      [] level = "INFO" -> "INFO " [] level = "DEBUG" -> "DEBUG "

\* C8: for every mask in 0..15 a call of Err, Warn, Info or Debug leaves the
\* sink as it was when the level's bit is clear in the mask, and appends
\* exactly one line, the level's name followed by the formatted message, when
\* it is set; the four bits are distinct powers of two, and the default mask
\* enables error, warning and info but not debug.
C8_LevelGating ==
    /\ last.n > 0 =>
          IF HasBit(srv.logger.opts, LevelBit(last.level))
          THEN /\ Len(log) = last.before + 1
               /\ log[Len(log)] = <<LevelPrefix(last.level)>> \o CallText(last.call) \o <<"\n">>
          ELSE Len(log) = last.before
    /\ <<LError, LWarning, LInfo, LDebug>> = <<1, 2, 4, 8>>
    /\ \A m \in Masks :
          /\ Enabled(NewLogger(m), LError) = HasBit(m, 1)
          /\ Enabled(NewLogger(m), LWarning) = HasBit(m, 2)
          /\ Enabled(NewLogger(m), LInfo) = HasBit(m, 4)
          /\ Enabled(NewLogger(m), LDebug) = HasBit(m, 8)
    /\ LDefault = 7

C8_Witness ==
    /\ srv.logger.opts = 10
    /\ last.n = 3 /\ last.level = "INFO" /\ last.before = 2
    /\ log = << <<"WARN ", "test log message", "\n">>, <<"DEBUG ", "turn ", "3", "\n">> >>

\* C9 as stated: when encoding the response fails on / or /move the client
\* sees status 500, an ERROR line is logged when the error bit is enabled,
\* and on /move no INFO "- Move:" line is logged for that request.
C9_EncodeFailureIs500 ==
    \A e \in Served :
        e.encErr =>
            /\ e.resp.status = 500
            /\ HasBit(srv.logger.opts, 1) =>
                  \E j \in e.logFrom .. e.logTo : log[j][1] = "ERROR "
            /\ \A j \in e.logFrom .. e.logTo : log[j][1] # "INFO " \/ e.req.path # "/move"

\* C10: the move function is invoked exactly once, with the state decoded
\* from the body and the server's logger, for each POST /move whose body
\* decodes; never for a /move answered 400, and never on another route.
C10_MoveFuncCalledOnce ==
    \A e \in Served :
        /\ (e.req.method = "POST" /\ e.req.path = "/move"
               /\ e.req.body \in ValidBodies \cup {BNull}
               /\ ~e.req.readFail)
           => /\ Len(e.calls) = 1
              /\ e.calls[1].logger = srv.logger
              /\ e.calls[1].state =
                    IF e.req.body = BNull THEN [nil |-> TRUE, v |-> StateOf(BZero)]
                    ELSE [nil |-> FALSE, v |-> StateOf(e.req.body)]
        /\ (e.req.path = "/move" /\ e.resp.status = 400) => e.calls = <<>>
        /\ e.req.path # "/move" => e.calls = <<>>

C10_Witness ==
    /\ Len(served) = 2
    /\ served[1].req = Req("POST", "/move", BFull) /\ Len(served[1].calls) = 1
    /\ served[2].req = Req("POST", "/move", BInvalid) /\ served[2].calls = <<>>
    /\ served[2].resp.status = 400

\* C11: with the debug bit set, a request whose body read fails is answered
\* 400 by the middleware alone: the body is empty, the move function is not
\* invoked, and the only line written for the request is the ERROR line of
\* the failed read (none when the error bit is clear), so no decode error,
\* no DEBUG request line and no INFO line.
C11_ReadFailureStopsAt400 ==
    (srv.constructed /\ HasBit(srv.logger.opts, 8)) =>
        \A e \in Served :
            (e.req.readFail /\ e.req.path # "//move")
            => /\ e.resp.status = 400
               /\ e.resp.body = <<>>
               /\ e.mwRead
               /\ e.calls = <<>>
               /\ SubSeq(log, e.logFrom, e.logTo) =
                     IF HasBit(srv.logger.opts, 1)
                     THEN << <<"ERROR ", "Failed to read request body: ",
                               "unexpected connection error", "\n">> >>
                     ELSE <<>>

C11_Witness ==
    \E e \in Served :
        /\ srv.logger.opts = 15
        /\ srv.moveFunc = "greeter"
        /\ e.req = [Req("POST", "/start", BZero) EXCEPT !.readFail = TRUE]
        /\ e.resp.status = 400
        /\ e.logTo = e.logFrom

\* C12: with the debug bit set and the body read in full, the response
\* (status, headers, body) of every request equals the response of a server
\* built from the same port, info record, move function and mask without the
\* debug bit.
C12_DebugKeepsResponse ==
    (srv.constructed /\ HasBit(srv.logger.opts, 8)) =>
        \A e \in Served :
            ~e.req.readFail =>
                \E plain \in {NewServer(srv.port, supplied, srv.logger.opts - 8,
                                        srv.moveFunc).s} :
                    /\ \A p \in Patterns : ~plain.mux[p].logging
                    /\ e.resp = Response(ServeHTTP(plain, NewContext(e.req, <<>>), e.req))

C12_Witness ==
    \E e \in Served :
        /\ HasBit(srv.logger.opts, 8)
        /\ e.req = Req("POST", "/move", BFull)
        /\ e.mwRead
        /\ e.resp.status = 200
        /\ e.resp.body # <<>>

\* C14 as stated: every request to /start, /end or /move, whatever its body,
\* ends with a response of status 200, 400 or 500: the handler does not
\* panic, and the move function is never handed a nil state.
C14_AlwaysAnswered ==
    \A e \in Served :
        e.req.path \in {"/start", "/end", "/move"}
        => /\ e.resp.status \in {200, 400, 500}
           /\ ~e.panic
           /\ \A k \in 1 .. Len(e.calls) : ~e.calls[k].state.nil


\* The server a construction with the same arguments gives, which has served
\* no request.
Fresh == NewServer(srv.port, supplied, srv.logger.opts, srv.moveFunc)

\* The response and the calls of move functions of request r when it is the
\* only request the server ever serves.
Alone(r) ==
    LET c == ServeHTTP(Fresh.s, NewContext(r, <<>>), r)
    IN  [resp |-> Response(c), calls |-> c.calls]

====
